---- MODULE Spec2Model ----
(***************************************************************************)
(* The price-management daemon of api.go (managePrices / refreshCoins) and *)
(* the lookups (getCoin) that HTTP handlers run against the shared coin    *)
(* list a.coins.                                                           *)
(*                                                                         *)
(* a.coins is a Go slice: a header of data pointer and length.  The daemon *)
(* stores it and the handlers load it with no synchronisation (the Api     *)
(* struct holds no mutex and no atomic), so a handler's load of the two    *)
(* words is modelled as two steps, in either order, that the daemon's      *)
(* store may fall between: a handler can then hold any pair of a pointer   *)
(* and a length that were current during its call, which is what a store   *)
(* split in two words would let it see as well.  A backing array is never  *)
(* written after it has been published, so a pointer is modelled by the    *)
(* array's contents.  epoch is the number of stores done when the call     *)
(* was entered.  One handler is modelled, serving one request after the    *)
(* other: handlers share nothing but a.coins and the date, which none of   *)
(* them writes, so what one observes does not depend on the others.  The   *)
(* handler also reads the date, word by word (see the date reader).        *)
(***************************************************************************)
EXTENDS Integers, Sequences, FiniteSets, TLC

\* ------------------------------------------------------------------ bounds
MaxTicks == 2
MaxFails == 2
MaxLen == 3

\* --------------------------------------------------------------- constants
\* Dates are whole hours since the Unix epoch: every date the program holds is
\* midnight UTC of some day, and hours keep the dates of the year 2042, where
\* the low 32 bits of time.Time's second count wrap, below 2^31.
\* time.Date(2014, time.January, 1, 0, 0, 0, 0, time.UTC): 16071 days.
InitialDate == 385704
\* time.Hour * 24.
Hours24 == 24
\* time.Minute, in seconds.
PriceRefreshInterval == 60
\* time.Second, in seconds.
RetryDelay == 1

\* -------------------------------------------------------------------- coins
\* m.Coin: the identifier the lookup compares, and an opaque payload.
Coin(id, price) == [Id |-> id, Price |-> price]
\* m.Coin{}: the zero value.
ZeroCoin == Coin("", 0)
btc1 == Coin("btc", 1)
btc2 == Coin("btc", 2)
eth1 == Coin("eth", 1)
Coins == {btc1, btc2, eth1}
\* The identifiers a handler asks for: present ones, an absent one, the empty one.
CoinIds == {"btc", "eth", "ltc", ""}

\* ------------------------------------------------------------------- slices
\* A slice header.  ptr is nil or points at a backing array (a sequence).
NilPtr == [isNil |-> TRUE, arr |-> << >>]
Ptr(arr) == [isNil |-> FALSE, arr |-> arr]
Slice(arr) == [ptr |-> Ptr(arr), len |-> Len(arr)]
NilSlice == [ptr |-> NilPtr, len |-> 0]
\* The elements a whole (untorn) header denotes.
Elems(s) == SubSeq(s.ptr.arr, 1, s.len)

RECURSIVE SeqsUpTo(_, _)
SeqsUpTo(S, n) ==
    IF n = 0 THEN {<< >>}
    ELSE LET shorter == SeqsUpTo(S, n - 1)
         IN  shorter \cup {Append(q, x) : q \in {r \in shorter : Len(r) = n - 1}, x \in S}

\* ----------------------------------------------------------------- upstream
\* What http.Get hands back when err == nil: a body that is a JSON array (its
\* elements coins, or "bad": a value of the wrong JSON type for m.Coin), some
\* other well-formed JSON value, or text that is not JSON.
Elem(c) == [typed |-> TRUE, coin |-> c]
BadElem == [typed |-> FALSE, coin |-> ZeroCoin]
ArrayBody(items) == [kind |-> "array", items |-> items]
ObjectBody == [kind |-> "object", items |-> << >>]
InvalidBody == [kind |-> "invalid", items |-> << >>]
NoBody == [kind |-> "none", items |-> << >>]
UpstreamBodies ==
    { ArrayBody(<<Elem(btc1), Elem(eth1)>>), ArrayBody(<<Elem(eth1)>>),
      ArrayBody(<<Elem(btc1), Elem(btc2)>>), ArrayBody(<< >>),
      ArrayBody(<<Elem(btc1), BadElem>>), ObjectBody, InvalidBody }

\* json.NewDecoder(r.Body).Decode(&coins) with coins a fresh nil slice.  The
\* decoder reads one whole JSON value and checks its syntax before it
\* unmarshals: text that is not JSON leaves coins nil.  A well-formed value
\* that is no array leaves coins nil as well.  In an array, an element of the
\* wrong type is skipped (its slot keeps the zero value), the first such error
\* is kept, and decoding goes on with the next element.
DecodeElem(x) == IF x.typed THEN x.coin ELSE ZeroCoin
DecodeAllOrNothing(body) ==
    IF body.kind = "array" /\ \A i \in 1..Len(body.items) : body.items[i].typed
    THEN Slice([i \in 1..Len(body.items) |-> body.items[i].coin])
    ELSE NilSlice
Decode(body) ==
    IF body.kind = "array"
    THEN Slice([i \in 1..Len(body.items) |-> DecodeElem(body.items[i])])
    ELSE NilSlice
\* The error Decode returns, which refreshCoins drops.
DecodeFails(body) ==
    \/ body.kind # "array"
    \/ \E i \in 1..Len(body.items) : ~body.items[i].typed

\* -------------------------------------------------------------------- state
VARIABLES
    coins,        \* a.coins: the slice header
    currentDate,  \* a.currentDate, hours since the epoch
    dayDuration,  \* a.dayDuration, seconds
    pc,           \* where managePrices is
    url,          \* refreshCoins' local url: the date it asks for
    r,            \* refreshCoins' local r: the response body
    attempts,     \* http.Get calls of the running refreshCoins
    fails,        \* of which failed
    slept,        \* seconds the running refreshCoins spent in time.Sleep(time.Second)
    ticks,        \* history: completed advances of the date
    replaces,     \* history: completed stores of a.coins
    initCoins,    \* history: what db.GetCoins() gave New
    pubBody,      \* history: the body the stored slice was decoded from
    pubDate,      \* history: the date the stored slice was fetched for
    tickCoins,    \* history: a.coins when the running refreshCoins was entered
    h             \* the handler running getCoin

vars == <<coins, currentDate, dayDuration, pc, url, r, attempts, fails, slept,
          ticks, replaces, initCoins, pubBody, pubDate, tickCoins, h>>
daemonVars == <<coins, currentDate, dayDuration, pc, url, r, attempts, fails,
                slept, ticks, replaces, initCoins, pubBody, pubDate, tickCoins>>

\* No request has been built and nothing has been stored yet.
NoUrl == <<0, 0>>
Idle == [pc |-> "idle", id |-> "", ptr |-> NilPtr, len |-> 0,
         epoch |-> 0, res |-> "none", coin |-> ZeroCoin, hi |-> 0, lo |-> 0]

\* New: the date and the interval are fixed, the coins are what the database holds.
InitAt(snapshots, date) ==
    /\ initCoins \in snapshots
    /\ coins = initCoins
    /\ currentDate = date
    /\ dayDuration = PriceRefreshInterval
    /\ pc = "entry"
    /\ url = NoUrl
    /\ r = NoBody
    /\ attempts = 0 /\ fails = 0 /\ slept = 0
    /\ ticks = 0 /\ replaces = 0
    /\ pubBody = NoBody
    /\ pubDate = 0
    /\ tickCoins = initCoins
    /\ h = Idle
InitWith(snapshots) == InitAt(snapshots, InitialDate)

Init == InitWith({NilSlice, Slice(<<btc1, eth1>>)})

\* ------------------------------------------------------------------- daemon
\* a.currentDate.UnixMilli(): the date's hours times 3 600 000.  The product
\* is past 2^31, so it is kept as its two digits in base 10^6, the high one
\* first: with x = 36 t the count is x * 10^5.
UnixMilli(t) == <<(t * 36) \div 10, ((t * 36) % 10) * 100000>>
\* The date a millisecond count names, in hours.
DateOfMilli(ms) == (ms[1] * 10 + (ms[2] \div 100000)) \div 36
\* fmt.Sprintf("%s/coins/%v", a.coingeckoBaseUrl, a.currentDate.UnixMilli()):
\* the base URL is fixed, the path's last segment is the count.
RequestUrlOfNextDay(t) == UnixMilli(t + Hours24)
RequestUrl(t) == UnixMilli(t)
\* a.currentDate.Add(time.Hour * 24)
AddTwoDays(t) == t + Hours24 + Hours24
AddDay(t) == t + Hours24
\* a.coins = coins
AssignAppends(old, new) == Slice(Elems(old) \o Elems(new))
Assign(old, new) == new

\* refreshCoins, up to the retry loop: the URL is built from the current date.
Entry ==
    /\ pc = "entry"
    /\ ticks < MaxTicks
    /\ url' = RequestUrl(currentDate)
    /\ attempts' = 0 /\ fails' = 0 /\ slept' = 0
    /\ tickCoins' = coins
    /\ pc' = "get"
    /\ UNCHANGED <<coins, currentDate, dayDuration, r, ticks, replaces,
                   initCoins, pubBody, pubDate, h>>

GetFailGivesUp ==
    /\ pc = "get"
    /\ fails < MaxFails
    /\ attempts' = attempts + 1
    /\ fails' = fails + 1
    /\ pc' = IF fails' = MaxFails THEN "store" ELSE "sleep"
    /\ UNCHANGED <<coins, currentDate, dayDuration, url, r, slept, ticks,
                   replaces, initCoins, pubBody, pubDate, tickCoins, h>>
GetFailNoSleep ==
    /\ pc = "get"
    /\ fails < MaxFails
    /\ attempts' = attempts + 1
    /\ fails' = fails + 1
    /\ pc' = "get"
    /\ UNCHANGED <<coins, currentDate, dayDuration, url, r, slept, ticks,
                   replaces, initCoins, pubBody, pubDate, tickCoins, h>>
GetFailClears ==
    /\ pc = "get"
    /\ fails < MaxFails
    /\ attempts' = attempts + 1
    /\ fails' = fails + 1
    /\ coins' = NilSlice
    /\ pc' = "sleep"
    /\ UNCHANGED <<currentDate, dayDuration, url, r, slept, ticks,
                   replaces, initCoins, pubBody, pubDate, tickCoins, h>>
\* http.Get(url) returns an error: on to time.Sleep(time.Second).
GetFail ==
    /\ pc = "get"
    /\ fails < MaxFails
    /\ attempts' = attempts + 1
    /\ fails' = fails + 1
    /\ pc' = "sleep"
    /\ UNCHANGED <<coins, currentDate, dayDuration, url, r, slept, ticks,
                   replaces, initCoins, pubBody, pubDate, tickCoins, h>>

RetrySleepRebuildsUrl ==
    /\ pc = "sleep"
    /\ slept' = slept + RetryDelay
    /\ url' = RequestUrl(AddDay(currentDate))
    /\ pc' = "get"
    /\ UNCHANGED <<coins, currentDate, dayDuration, r, attempts, fails,
                   ticks, replaces, initCoins, pubBody, pubDate, tickCoins, h>>
\* time.Sleep(time.Second), then the loop's next http.Get.
RetrySleep ==
    /\ pc = "sleep"
    /\ slept' = slept + RetryDelay
    /\ pc' = "get"
    /\ UNCHANGED <<coins, currentDate, dayDuration, url, r, attempts, fails,
                   ticks, replaces, initCoins, pubBody, pubDate, tickCoins, h>>

\* http.Get(url) returns err == nil: break.
GetOk ==
    /\ pc = "get"
    /\ \E body \in UpstreamBodies : r' = body
    /\ attempts' = attempts + 1
    /\ pc' = "store"
    /\ UNCHANGED <<coins, currentDate, dayDuration, url, fails, slept, ticks,
                   replaces, initCoins, pubBody, pubDate, tickCoins, h>>

\* The decode into the local slice and a.coins = coins; refreshCoins returns.
Store ==
    /\ pc = "store"
    /\ coins' = Assign(coins, Decode(r))
    /\ replaces' = replaces + 1
    /\ pubBody' = r
    /\ pubDate' = DateOfMilli(url)
    /\ pc' = "advance"
    /\ UNCHANGED <<currentDate, dayDuration, url, r, attempts, fails, slept,
                   ticks, initCoins, tickCoins, h>>

\* a.currentDate = a.currentDate.Add(time.Hour * 24)
Advance ==
    /\ pc = "advance"
    /\ currentDate' = AddDay(currentDate)
    /\ ticks' = ticks + 1
    /\ pc' = "wait"
    /\ UNCHANGED <<coins, dayDuration, url, r, attempts, fails, slept,
                   replaces, initCoins, pubBody, pubDate, tickCoins, h>>

WaitAndReturn ==
    /\ pc = "wait"
    /\ pc' = "returned"
    /\ UNCHANGED <<coins, currentDate, dayDuration, url, r, attempts, fails,
                   slept, ticks, replaces, initCoins, pubBody, pubDate,
                   tickCoins, h>>
\* time.Sleep(a.dayDuration), then the loop's next refreshCoins.
Wait ==
    /\ pc = "wait"
    /\ pc' = "entry"
    /\ UNCHANGED <<coins, currentDate, dayDuration, url, r, attempts, fails,
                   slept, ticks, replaces, initCoins, pubBody, pubDate,
                   tickCoins, h>>

Daemon == Entry \/ GetFail \/ RetrySleep \/ GetOk \/ Store \/ Advance \/ Wait

\* ------------------------------------------------------------------ handler
\* getCoin's loop body and its two returns: the first coin whose Id is coin_id
\* with a nil error, or m.Coin{} with the error.
Found(c) == [coin |-> c, err |-> "nil"]
NotFound == [coin |-> ZeroCoin, err |-> "Requested coin doesn't exist!"]
RECURSIVE ScanFrom(_, _, _)
ScanFrom(mem, i, coin_id) ==
    IF i > Len(mem) THEN NotFound
    ELSE IF mem[i].Id = coin_id THEN Found(mem[i])
    ELSE ScanFrom(mem, i + 1, coin_id)
RECURSIVE ScanLast(_, _, _, _)
ScanLast(mem, i, coin_id, found) ==
    IF i > Len(mem) THEN found
    ELSE ScanLast(mem, i + 1, coin_id,
                  IF mem[i].Id = coin_id THEN Found(mem[i]) ELSE found)
GetCoinScanLastMatch(mem, coin_id) == ScanLast(mem, 1, coin_id, NotFound)
GetCoinScanFromSecond(mem, coin_id) == ScanFrom(mem, 2, coin_id)
GetCoinScan(mem, coin_id) == ScanFrom(mem, 1, coin_id)

\* What a read past the end of a backing array may find.
Garbage == Coins \cup {ZeroCoin}
\* The memory `range` walks for a loaded header: len elements from ptr on; those
\* past the end of the array are whatever lies there (junk).
Memory(ptr, len, junk) ==
    [i \in 1..len |-> IF i <= Len(ptr.arr) THEN ptr.arr[i] ELSE junk[i]]

\* getCoin is entered; `range a.coins` loads the first word of the header.
LoadFirst ==
    /\ h.pc = "idle"
    /\ \E id \in CoinIds :
          \/ h' = [h EXCEPT !.pc = "hasPtr", !.id = id, !.ptr = coins.ptr,
                            !.epoch = replaces]
          \/ h' = [h EXCEPT !.pc = "hasLen", !.id = id, !.len = coins.len,
                            !.epoch = replaces]
    /\ UNCHANGED daemonVars

\* `range a.coins` loads the other word; a store of a.coins may have come
\* between the two loads.
LoadSecond ==
    /\ h.pc \in {"hasPtr", "hasLen"}
    /\ h' = [h EXCEPT !.pc = "scan",
                      !.ptr = IF h.pc = "hasLen" THEN coins.ptr ELSE h.ptr,
                      !.len = IF h.pc = "hasPtr" THEN coins.len ELSE h.len]
    /\ UNCHANGED daemonVars

ScanClearsOnMiss ==
    /\ h.pc = "scan"
    /\ \E junk \in [1..h.len -> Garbage] :
          LET got == GetCoinScan(Memory(h.ptr, h.len, junk), h.id)
          IN  /\ h' = [h EXCEPT !.pc = "done", !.res = got.err, !.coin = got.coin]
              /\ coins' = IF got.err = "nil" THEN coins ELSE NilSlice
    /\ UNCHANGED <<currentDate, dayDuration, pc, url, r, attempts, fails, slept,
                   ticks, replaces, initCoins, pubBody, pubDate, tickCoins>>
\* The loop over the loaded header, to getCoin's return.  A nil pointer with a
\* length above zero is a nil dereference: the handler panics.
Scan ==
    /\ h.pc = "scan"
    /\ IF h.ptr.isNil /\ h.len > 0
       THEN h' = [h EXCEPT !.pc = "done", !.res = "panic"]
       ELSE \E junk \in [1..h.len -> Garbage] :
              LET got == GetCoinScan(Memory(h.ptr, h.len, junk), h.id)
              IN  h' = [h EXCEPT !.pc = "done", !.res = got.err, !.coin = got.coin]
    /\ UNCHANGED daemonVars

\* The handler has answered; the next request comes in.
Return ==
    /\ h.pc = "done"
    /\ h' = Idle
    /\ UNCHANGED daemonVars

\* ------------------------------------------------------------- date reader
\* a.currentDate is a time.Time: the words wall, ext and loc.  For a date made
\* by time.Date(..., time.UTC) wall is 0 (no nanoseconds, no monotonic reading)
\* and loc is nil, and Add(24h) leaves both as they are: ext, the int64 count
\* of seconds since the year 1, is all that an advance changes.  On a build
\* with 32-bit words ext is two words.  With t in hours,
\*   ext = 3600 t + 62135596800 = 16 (14 * 2^28 + z),  z = 225 t + 125378416,
\* so its high word is 14 + z div 2^28 and its low word 16 (z mod 2^28); the
\* low word is kept without the factor 16.
ExtWords(t) ==
    LET z == 225 * t + 125378416
    IN  [hi |-> 14 + (z \div 268435456), lo |-> z % 268435456]

\* A handler reads a.currentDate: the Api struct has no lock to take, so the
\* read is a plain load, of the first of ext's two words here.  (A build with
\* 64-bit words loads ext at once: the runs in which no advance comes between
\* the two loads.)
NowLoadFirst ==
    /\ h.pc = "idle"
    /\ \/ h' = [h EXCEPT !.pc = "nowHasLo", !.lo = ExtWords(currentDate).lo,
                          !.epoch = ticks]
       \/ h' = [h EXCEPT !.pc = "nowHasHi", !.hi = ExtWords(currentDate).hi,
                          !.epoch = ticks]
    /\ UNCHANGED daemonVars

\* The load of the other word; an advance may have come between the two.
NowLoadSecond ==
    /\ h.pc \in {"nowHasLo", "nowHasHi"}
    /\ h' = [h EXCEPT !.pc = "nowDone",
                      !.lo = IF h.pc = "nowHasHi" THEN ExtWords(currentDate).lo ELSE h.lo,
                      !.hi = IF h.pc = "nowHasLo" THEN ExtWords(currentDate).hi ELSE h.hi]
    /\ UNCHANGED daemonVars

\* The handler has the date; the next request comes in.
NowReturn ==
    /\ h.pc = "nowDone"
    /\ h' = Idle
    /\ UNCHANGED daemonVars

Handler ==
    \/ LoadFirst \/ LoadSecond \/ Scan \/ Return
    \/ NowLoadFirst \/ NowLoadSecond \/ NowReturn

Next == Daemon \/ Handler

Spec == Init /\ [][Next]_vars

\* The daemon alone: its goroutine keeps being scheduled, and every request
\* it makes is answered, with an error or without.  The handler is left out:
\* it holds no lock the daemon waits for and writes nothing the daemon reads.
NextDaemon == Daemon
SpecFair == Init /\ [][NextDaemon]_vars /\ WF_vars(Daemon)

\* The program after 10421 ticks, 2042-07-14: the next advance carries into
\* the high word of the date's second count.  ticks and replaces count from
\* this state on.
CarryEve == InitialDate + 10421 * Hours24
InitCarry == InitAt({Slice(<<btc1, eth1>>)}, CarryEve)
SpecCarry == InitCarry /\ [][Next]_vars

\* The lookup alone, on every coin list up to MaxLen, while the daemon is
\* held up in its first request.
Snapshots == {NilSlice} \cup {Slice(q) : q \in SeqsUpTo(Garbage, MaxLen)}
InitLookup == InitWith(Snapshots)
NextLookup == Handler
SpecLookup == InitLookup /\ [][NextLookup]_vars

\* ------------------------------------------------------------------ claims
\* The steps of managePrices' loop: refreshCoins up to the response is the
\* fetch, the rest of refreshCoins the publish.
StepOf(p) ==
    CASE p \in {"entry", "get", "sleep"} -> "Fetch"
      [] p = "store" -> "Publish"
      [] p = "advance" -> "Advance"
      [] p = "wait" -> "Wait"
      [] OTHER -> "Exit"
Cycle == { <<"Fetch", "Fetch">>, <<"Fetch", "Publish">>, <<"Publish", "Advance">>,
           <<"Advance", "Wait">>, <<"Wait", "Fetch">> }
\* The positions at which some coin of a list has the identifier.
Hits(s, id) == {i \in 1..Len(s) : s[i].Id = id}

\* C1: after N completed ticks the date is the initial date plus N days, whatever
\* the number of failed attempts; a step leaves the date alone or adds one day.
C1_DateIsInitialPlusTicks ==
    /\ [](currentDate = InitialDate + ticks * Hours24)
    /\ [][currentDate' = currentDate \/ currentDate' = currentDate + Hours24]_vars
\* Two ticks are done, the second after two failed attempts.
C1_Witness ==
    /\ pc = "wait" /\ ticks = 2 /\ fails = 2
    /\ currentDate = InitialDate + 2 * Hours24

\* C2: every lookup scans one whole snapshot: the pointer and the length it
\* walks belong to the same coin list.
C2_SnapshotAtomicity ==
    h.pc \in {"scan", "done"} => h.len = Len(h.ptr.arr)

\* C3: getCoin(id) answers a coin of the current list with that identifier and
\* no error when the list has one, and the zero coin with the not-found error
\* exactly when the list has none.
C3_LookupCorrect ==
    h.pc = "done" =>
        LET s == Elems(coins)
        IN  IF Hits(s, h.id) # {}
            THEN /\ h.res = "nil"
                 /\ h.coin.Id = h.id
                 /\ \E i \in Hits(s, h.id) : s[i] = h.coin
            ELSE /\ h.res = NotFound.err
                 /\ h.coin = ZeroCoin
\* The list is [btc, eth] and lookup("btc") has answered the btc coin.
C3_Witness ==
    /\ coins = Slice(<<btc1, eth1>>)
    /\ h.pc = "done" /\ h.id = "btc" /\ h.res = "nil" /\ h.coin = btc1

\* C4: with K failed attempts before the successful one, refreshCoins makes K+1
\* requests and sleeps one second after each failed one and not after the successful one.
C4_RetryCounts ==
    /\ pc = "get" => attempts = fails /\ slept = fails * RetryDelay
    /\ pc = "sleep" => attempts = fails /\ slept = (fails - 1) * RetryDelay
    /\ pc \in {"store", "advance", "wait"} => attempts = fails + 1 /\ slept = fails * RetryDelay
\* Two failures, then the third request succeeded.
C4_Witness ==
    pc = "store" /\ fails = 2 /\ attempts = 3 /\ slept = 2 * RetryDelay

\* C5: while a fetch has not yet had its successful attempt, the list is the one
\* the tick started with (the database's while nothing was ever stored), the
\* date is the one the request was built from, a handler in getCoin can always
\* take its next step, and a lookup entered since the last store answers from
\* that list.
C5_StaleWhileFailing ==
    pc \in {"get", "sleep"} =>
        /\ coins = tickCoins
        /\ replaces = 0 => coins = initCoins
        /\ UnixMilli(currentDate) = url
        /\ h.pc # "idle" => ENABLED Handler
        /\ (h.pc = "done" /\ h.epoch = replaces) =>
               LET s == Elems(tickCoins)
               IN  /\ h.res # "panic"
                   /\ h.res = "nil" => \E i \in Hits(s, h.id) : s[i] = h.coin
                   /\ h.res # "nil" => Hits(s, h.id) = {} /\ h.coin = ZeroCoin
\* In the second tick, after two failed attempts, a lookup entered after the
\* first store has answered from the first tick's list.
C5_Witness ==
    /\ pc = "sleep" /\ fails = 2 /\ ticks = 1
    /\ coins = Slice(<<btc1, eth1>>)
    /\ h.pc = "done" /\ h.epoch = replaces /\ h.id = "eth" /\ h.coin = eth1

\* C6: the request of tick k asks for the initial date plus k-1 days.
C6_FetchDate ==
    pc \in {"get", "sleep", "store"} => url = UnixMilli(InitialDate + ticks * Hours24)
\* The second tick asks for 2014-01-02.
C6_Witness ==
    pc = "get" /\ ticks = 1 /\ DateOfMilli(url) = InitialDate + Hours24

\* C7: once a list has been stored, the date d it was fetched for satisfies
\* now - 1 day <= d <= now.
C7_SnapshotLag ==
    replaces >= 1 => currentDate - Hours24 <= pubDate /\ pubDate <= currentDate
\* After a tick's advance the stored list is one day behind the date.
C7_Witness ==
    pc = "wait" /\ replaces = 2 /\ pubDate = currentDate - Hours24

\* C8: the daemon's steps follow the cycle Fetch, Publish, Advance, Wait, and
\* the daemon always has a next step (up to the tick bound of the model).
C8_StepCycle ==
    /\ [][pc' # pc => <<StepOf(pc), StepOf(pc')>> \in Cycle]_vars
    /\ [](StepOf(pc) # "Exit")
    /\ [](ticks < MaxTicks => ENABLED Daemon)
\* The second tick's fetch has begun: one whole cycle has been walked.
C8_Witness ==
    pc = "get" /\ ticks = 1 /\ replaces = 1

\* C9: stores minus advances is 0 or 1, and the list is the database's until
\* the first store and from then on the whole decode of one response.
C9_WholesaleReplace ==
    /\ replaces - ticks \in {0, 1}
    /\ coins.len = Len(coins.ptr.arr)
    /\ replaces = 0 => coins = initCoins
    /\ replaces > 0 => pubBody \in UpstreamBodies /\ coins = Decode(pubBody)
\* The second tick has stored its list and not yet advanced the date.
C9_Witness ==
    /\ pc = "advance" /\ replaces = 2 /\ ticks = 1
    /\ initCoins = Slice(<<btc1, eth1>>) /\ coins = Slice(<<eth1>>)

C11_FetchProgress ==
    /\ [][(pc \in {"get", "sleep"} /\ pc' # pc) =>
            /\ UNCHANGED <<coins, currentDate, replaces, ticks>>
            /\ \/ pc' \in {"get", "sleep"}
               \/ /\ pc = "get" /\ pc' = "store"
                  /\ attempts' = attempts + 1 /\ fails' = fails
                  /\ r' \in UpstreamBodies]_vars
    /\ \A n \in 0..MaxTicks :
          (pc = "store" /\ ticks = n) ~> (pc = "wait" /\ ticks = n + 1 /\ replaces = n + 1)
\* A tick that failed once and was then answered has stored and advanced.
C11_Witness ==
    pc = "wait" /\ fails = 1 /\ attempts = 2 /\ ticks = 1 /\ replaces = 1

\* C12: a step of getCoin, hit or miss, leaves the list, the date and the day
\* duration alone; the day duration is always the one New set; the list changes
\* only in the daemon's store and the date only in the daemon's advance.
C12_SoleWriter ==
    /\ [](dayDuration = PriceRefreshInterval)
    /\ [][h' # h => UNCHANGED <<coins, currentDate, dayDuration>>]_vars
    /\ [][coins' # coins => (pc = "store" /\ pc' = "advance" /\ h' = h)]_vars
    /\ [][currentDate' # currentDate => (pc = "advance" /\ pc' = "wait" /\ h' = h)]_vars
\* After the first tick a lookup has missed, and list and date are the daemon's.
C12_Witness ==
    /\ h.pc = "done" /\ h.id = "ltc" /\ h.res = NotFound.err
    /\ replaces = 1 /\ coins = Slice(<<btc1, eth1>>)
    /\ currentDate = InitialDate + Hours24

\* C13: when several coins of the list have the identifier, getCoin answers
\* the one at the lowest position.
C13_FirstMatch ==
    h.pc = "done" =>
        LET s == Elems(coins)
        IN  \A i \in Hits(s, h.id) :
                (\A j \in Hits(s, h.id) : i <= j) => (h.res = "nil" /\ h.coin = s[i])
\* The list holds two btc coins and the lookup answered the first.
C13_Witness ==
    /\ coins = Slice(<<btc2, eth1, btc1>>)
    /\ h.pc = "done" /\ h.id = "btc" /\ h.coin = btc2

\* C15: from the entry of refreshCoins to its successful attempt the URL stays
\* the one built at the entry, which names the current date, and the date
\* stays as it was: every attempt of a tick asks for the same date.
C15_SameDatePerTick ==
    /\ [](pc \in {"get", "sleep"} => url = UnixMilli(currentDate))
    /\ [][(pc \in {"get", "sleep"}) => (url' = url /\ currentDate' = currentDate)]_vars
    /\ [][attempts' = attempts + 1 => DateOfMilli(url) = currentDate]_vars
\* The third attempt of the second tick is about to ask for the second date.
C15_Witness ==
    /\ pc = "get" /\ ticks = 1 /\ fails = 2 /\ attempts = 2
    /\ DateOfMilli(url) = InitialDate + Hours24

====
